---- MODULE Spec2Model ----
(***************************************************************************)
(* immich_ml_proxy: the request routing and fan-out engine.                *)
(*                                                                         *)
(* The model follows the most complete variant of the service: the         *)
(* handlers of src/unnamed/part_000 (lines 1-432), the registry and health *)
(* tracker of package config (src/README.md lines 318-606) and package     *)
(* proxy (src/proxy/proxy.go).  proxy.GetNextBackend and                   *)
(* Config.GetBackendByModelType are called by the handlers but their code  *)
(* is not among the sources; they are modelled from the specification.     *)
(***************************************************************************)
EXTENDS Integers, Sequences, FiniteSets, TLC

(***************************************************************************)
(* Bounds of the model.                                                    *)
(***************************************************************************)
\* handlers (/predict, /ping, POST /api/config) that may run at the same time
MaxInFlight == 2
\* selections one round-robin cursor may count before /predict stops being issued
MaxCursor == 2
\* backends in a list handed to proxy.GetNextBackend by a caller of its own
MaxList == 3
\* selections such a caller makes
MaxPicks == 5

(***************************************************************************)
(* The values requests and backends are drawn from.                        *)
(***************************************************************************)
Types == {"image", "visual"}

StatusOK == 200
StatusBadRequest == 400
StatusInternalServerError == 500
StatusServiceUnavailable == 503

HealthStatusHealthy == "healthy"
HealthStatusUnhealthy == "unhealthy"
HealthStatusUnknown == "unknown"

\* a map with no key (a Go map that is empty or nil)
EmptyMap == [k \in {} |-> ""]

BackendA == [name |-> "A", url |-> "uA"]
BackendB == [name |-> "B", url |-> "uB"]
\* a second entry with the name of BackendA (the handler does not refuse it)
BackendA2 == [name |-> "A", url |-> "uB"]

\* The bodies of POST /api/config the model posts (ConfigRequest).
PostedConfigs ==
    { [defaultBackend |-> "A", backends |-> <<>>,
       taskRouting |-> EmptyMap, modelTypeRouting |-> EmptyMap],
      [defaultBackend |-> "", backends |-> <<BackendA>>,
       taskRouting |-> EmptyMap, modelTypeRouting |-> EmptyMap],
      [defaultBackend |-> "B", backends |-> <<BackendA>>,
       taskRouting |-> EmptyMap, modelTypeRouting |-> EmptyMap],
      [defaultBackend |-> "A", backends |-> <<BackendA, BackendB>>,
       taskRouting |-> [image |-> "B"], modelTypeRouting |-> EmptyMap],
      [defaultBackend |-> "B", backends |-> <<BackendA, BackendB>>,
       taskRouting |-> [image |-> "A"], modelTypeRouting |-> [visual |-> "A"]],
      [defaultBackend |-> "B", backends |-> <<BackendB>>,
       taskRouting |-> [image |-> "A"], modelTypeRouting |-> EmptyMap],
      [defaultBackend |-> "A", backends |-> <<BackendA, BackendB>>,
       taskRouting |-> [visual |-> "B"], modelTypeRouting |-> [visual |-> "A"]],
      [defaultBackend |-> "A", backends |-> <<BackendA, BackendA2>>,
       taskRouting |-> [image |-> "A"], modelTypeRouting |-> EmptyMap] }

(***************************************************************************)
(* State.                                                                  *)
(***************************************************************************)
VARIABLES
    \* config.Config: the Backend Registry and the Health Tracker
    DefaultBackend,     \* string, "" when unset
    Backends,           \* sequence of [name, url]
    TaskRouting,        \* map type -> backend name
    ModelTypeRouting,   \* map model type -> backend name
    Health,             \* map backend name -> [status, lastCheck, error]
    \* proxy.GetNextBackend's cursors
    cursor,             \* map type -> number of selections made
    \* the process: a panic in a goroutine without recover ends it
    crashed,
    \* ConfigPostHandler
    postPc, postReq, postResp, postOld,
    \* PingHandler
    pingPc, pingLen, statuses, pingBackends, pingProbed, defaultBackend, pingResp,
    \* PredictHandler
    predPc, predReq, entries, wpc, whealthy, wsel, wresp, wcalls, typeResults, typeErrors,
    predResp,
    \* a caller of proxy.GetNextBackend with a list of its own
    rrList, rrPicks,
    \* a caller of the registry's lookups: the last lookup and what it returned
    lookup,
    \* a caller of proxy.CheckBackendHealth: the last answer and the status returned
    probe,
    \* a caller of the parsing functions: the entries object and what they returned
    parse,
    \* debug.DebugManager, slice-based (dm) and map-based (mdm), and the clock
    dm, mdm, now,
    \* the number of records the recorder was asked to add so far
    added

cfgVars == <<DefaultBackend, Backends, TaskRouting, ModelTypeRouting>>
postVars == <<postPc, postReq, postResp, postOld>>
pingVars == <<pingPc, pingLen, statuses, pingBackends, pingProbed, defaultBackend, pingResp>>
predVars == <<predPc, predReq, entries, wpc, whealthy, wsel, wresp, wcalls, typeResults, typeErrors,
              predResp>>
rrVars == <<rrList, rrPicks>>
lookupVars == <<lookup, probe, parse>>
debugVars == <<dm, mdm, now, added>>
vars == <<cfgVars, Health, cursor, crashed, postVars, pingVars, predVars, rrVars, lookupVars,
          debugVars>>

(***************************************************************************)
(* package config: lookups of the registry and the health tracker.         *)
(***************************************************************************)
Min(S) == CHOOSE m \in S : \A n \in S : m <= n

\* for _, backend := range bs { if backend.Name == name { return backend } }
\* as a list of at most one backend (empty: not found, a nil pointer)
FindByName(bs, name) ==
    LET hits == {i \in 1..Len(bs) : bs[i].name = name}
    IN  IF hits = {} THEN <<>> ELSE <<bs[Min(hits)]>>

FindByURL(bs, url) ==
    LET hits == {i \in 1..Len(bs) : bs[i].url = url}
    IN  IF hits = {} THEN <<>> ELSE <<bs[Min(hits)]>>

UnknownHealth == [status |-> HealthStatusUnknown, lastCheck |-> 0, error |-> ""]

GetHealthStatus(name) ==
    IF name \in DOMAIN Health THEN Health[name] ELSE UnknownHealth

\* time.Now().Unix() is abstracted to one positive time
HealthRecord(status, error) == [status |-> status, lastCheck |-> 1, error |-> error]

\* SetHealthStatus replacing the map by one that holds the name alone
SetHealthStatusAlone(h, name, status, error) ==
    [n \in {name} |-> HealthRecord(status, error)]

\* c.Health[backendName] = BackendHealth{Status: status, LastCheck: now, Error: error}
SetHealthStatus(h, name, status, error) ==
    [n \in DOMAIN h \cup {name} |->
        IF n = name THEN HealthRecord(status, error) ELSE h[n]]

GetAllBackendURLs == [i \in 1..Len(Backends) |-> Backends[i].url]

GetBackendsByType(typeName) ==
    IF typeName \in DOMAIN TaskRouting
    THEN FindByName(Backends, TaskRouting[typeName])
    ELSE <<>>

\* GetHealthyBackendsByType that takes a backend without a health record for healthy
GetHealthyBackendsByTypeOrUnknown(typeName) ==
    IF typeName \in DOMAIN TaskRouting
    THEN LET found == FindByName(Backends, TaskRouting[typeName])
         IN  IF found # <<>>
                /\ (found[1].name \in DOMAIN Health =>
                        Health[found[1].name].status = HealthStatusHealthy)
             THEN found
             ELSE <<>>
    ELSE <<>>

GetHealthyBackendsByType(typeName) ==
    IF typeName \in DOMAIN TaskRouting
    THEN LET found == FindByName(Backends, TaskRouting[typeName])
         IN  IF found # <<>>
                /\ found[1].name \in DOMAIN Health
                /\ Health[found[1].name].status = HealthStatusHealthy
             THEN found
             ELSE <<>>
    ELSE <<>>

GetAllTypes == DOMAIN TaskRouting

\* GetDefaultBackend that returns the default backend only when it is healthy
GetDefaultBackendIfHealthy ==
    IF DefaultBackend = "" \/ GetHealthStatus(DefaultBackend).status # HealthStatusHealthy
    THEN <<>>
    ELSE FindByName(Backends, DefaultBackend)

GetDefaultBackend ==
    IF DefaultBackend = "" THEN <<>> ELSE FindByName(Backends, DefaultBackend)

\* not among the sources: the backend ModelTypeRouting names for the type, or nil
GetBackendByModelType(modelType) ==
    IF modelType \in DOMAIN ModelTypeRouting
    THEN FindByName(Backends, ModelTypeRouting[modelType])
    ELSE <<>>

\* GetBackendURL without the default backend
GetBackendURLRoutedOnly(task) ==
    IF task \in DOMAIN TaskRouting /\ FindByName(Backends, TaskRouting[task]) # <<>>
    THEN FindByName(Backends, TaskRouting[task])[1].url
    ELSE ""

\* the URL of the backend taskRouting names, else of the default backend, else ""
GetBackendURL(task) ==
    IF task \in DOMAIN TaskRouting /\ FindByName(Backends, TaskRouting[task]) # <<>>
    THEN FindByName(Backends, TaskRouting[task])[1].url
    ELSE IF DefaultBackend # "" /\ FindByName(Backends, DefaultBackend) # <<>>
    THEN FindByName(Backends, DefaultBackend)[1].url
    ELSE ""

\* no lookup made yet
NoLookup == [type |-> "", url |-> "", backends |-> <<>>, healthy |-> <<>>]

(***************************************************************************)
(* Handlers in flight.                                                     *)
(***************************************************************************)
InFlight ==
    (IF postPc # "idle" THEN 1 ELSE 0)
    + (IF pingPc # "idle" THEN 1 ELSE 0)
    + (IF predPc # "idle" THEN 1 ELSE 0)

\* A handler begins when the server has a free slot: with concurrent handlers up
\* to MaxInFlight run at once, else requests are served one after the other.
MayBegin(concurrent) ==
    /\ ~crashed
    /\ IF concurrent THEN InFlight < MaxInFlight ELSE InFlight = 0

(***************************************************************************)
(* ConfigPostHandler: POST /api/config.                                    *)
(***************************************************************************)
Registry == [defaultBackend |-> DefaultBackend, backends |-> Backends,
             taskRouting |-> TaskRouting, modelTypeRouting |-> ModelTypeRouting]

NoConfig == [defaultBackend |-> "", backends |-> <<>>,
             taskRouting |-> EmptyMap, modelTypeRouting |-> EmptyMap]

\* ConfigValid without the look-up of the default backend in the posted list
ConfigValidWithoutLookup(req) ==
    /\ Len(req.backends) # 0
    /\ req.defaultBackend # ""

\* the three validations of the handler, in their order
ConfigValid(req) ==
    /\ Len(req.backends) # 0
    /\ req.defaultBackend # ""
    /\ \E i \in 1..Len(req.backends) : req.backends[i].name = req.defaultBackend

\* binding, validation and, for a valid body, the first assignment
ConfigPostBegin(req, concurrent) ==
    /\ MayBegin(concurrent)
    /\ postPc = "idle"
    /\ postReq' = req
    /\ postOld' = Registry
    /\ IF ConfigValid(req)
       THEN /\ DefaultBackend' = req.defaultBackend
            /\ postPc' = "backends"
            /\ postResp' = 0
       ELSE /\ postPc' = "done"
            /\ postResp' = StatusBadRequest
            /\ UNCHANGED DefaultBackend
    /\ UNCHANGED <<Backends, TaskRouting, ModelTypeRouting, Health, cursor, crashed,
                   pingVars, rrVars, lookupVars, debugVars, predVars>>

ConfigPostSetBackends ==
    /\ ~crashed
    /\ postPc = "backends"
    /\ Backends' = postReq.backends
    /\ postPc' = "taskRouting"
    /\ UNCHANGED <<DefaultBackend, TaskRouting, ModelTypeRouting, Health, cursor, crashed,
                   postReq, postResp, postOld, pingVars, rrVars, lookupVars, debugVars, predVars>>

ConfigPostSetTaskRouting ==
    /\ ~crashed
    /\ postPc = "taskRouting"
    /\ TaskRouting' = postReq.taskRouting
    /\ postPc' = "modelTypeRouting"
    /\ UNCHANGED <<DefaultBackend, Backends, ModelTypeRouting, Health, cursor, crashed,
                   postReq, postResp, postOld, pingVars, rrVars, lookupVars, debugVars, predVars>>

ConfigPostSetModelTypeRouting ==
    /\ ~crashed
    /\ postPc = "modelTypeRouting"
    /\ ModelTypeRouting' = postReq.modelTypeRouting
    /\ postPc' = "save"
    /\ UNCHANGED <<DefaultBackend, Backends, TaskRouting, Health, cursor, crashed,
                   postReq, postResp, postOld, pingVars, rrVars, lookupVars, debugVars, predVars>>

\* cfg.Save(): writing config.json succeeds or fails
ConfigPostSave(saved) ==
    /\ ~crashed
    /\ postPc = "save"
    /\ postPc' = "done"
    /\ postResp' = IF saved THEN StatusOK ELSE StatusInternalServerError
    /\ UNCHANGED <<cfgVars, Health, cursor, crashed, postReq, postOld, pingVars, rrVars, lookupVars, debugVars, predVars>>

\* the handler returns: its locals are gone
ConfigPostReturn ==
    /\ ~crashed
    /\ postPc = "done"
    /\ postPc' = "idle"
    /\ postReq' = NoConfig
    /\ postOld' = NoConfig
    /\ postResp' = 0
    /\ UNCHANGED <<cfgVars, Health, cursor, crashed, pingVars, rrVars, lookupVars, debugVars, predVars>>

ConfigPost(configs, concurrent) ==
    \/ \E req \in configs : ConfigPostBegin(req, concurrent)
    \/ ConfigPostSetBackends
    \/ ConfigPostSetTaskRouting
    \/ ConfigPostSetModelTypeRouting
    \/ \E saved \in BOOLEAN : ConfigPostSave(saved)
    \/ ConfigPostReturn

(***************************************************************************)
(* package proxy: the active probe.                                        *)
(***************************************************************************)
\* what a backend's GET /ping can give: a transport error, or a status and a body
PingAnswers ==
    { [err |-> TRUE,  code |-> 0,   status |-> "",                          body |-> ""],
      [err |-> FALSE, code |-> 200, status |-> "200 OK",                    body |-> "pong"],
      [err |-> FALSE, code |-> 200, status |-> "200 OK",                    body |-> "other"],
      [err |-> FALSE, code |-> 500, status |-> "500 Internal Server Error", body |-> "pong"] }

\* CheckBackendHealth that does not read the body
CheckBackendHealthByStatus(backendURL, answer) ==
    IF answer.err
    THEN [url |-> backendURL, status |-> "unhealthy", error |-> "dial error"]
    ELSE IF answer.code = StatusOK
         THEN [url |-> backendURL, status |-> "healthy", error |-> ""]
         ELSE [url |-> backendURL, status |-> "unhealthy",
               error |-> "unexpected response: " \o answer.status]

\* proxy.BackendStatus of the probe
CheckBackendHealth(backendURL, answer) ==
    IF answer.err
    THEN [url |-> backendURL, status |-> "unhealthy", error |-> "dial error"]
    ELSE IF answer.code = StatusOK /\ answer.body = "pong"
         THEN [url |-> backendURL, status |-> "healthy", error |-> ""]
         ELSE [url |-> backendURL, status |-> "unhealthy",
               error |-> "unexpected response: " \o answer.status]

\* no probe made yet
NoProbe == [answer |-> [err |-> FALSE, code |-> 0, status |-> "", body |-> ""],
            result |-> [url |-> "", status |-> "", error |-> ""]]

(***************************************************************************)
(* PingHandler: GET /ping.                                                 *)
(***************************************************************************)
\* backendURLs := cfg.GetAllBackendURLs(); statuses is sized from it
PingBegin(concurrent) ==
    /\ MayBegin(concurrent)
    /\ pingPc = "idle"
    /\ pingLen' = Len(GetAllBackendURLs)
    /\ statuses' = [i \in 1..Len(GetAllBackendURLs) |-> NoProbe.result]
    /\ pingBackends' = <<>>
    /\ pingProbed' = <<>>
    /\ defaultBackend' = <<>>
    /\ IF Len(GetAllBackendURLs) = 0
       THEN pingPc' = "done" /\ pingResp' = StatusServiceUnavailable
       ELSE pingPc' = "spawn" /\ pingResp' = 0
    /\ UNCHANGED <<cfgVars, Health, cursor, crashed, postVars, rrVars, lookupVars, debugVars, predVars>>

\* for i, backend := range cfg.Backends: one probe goroutine per backend
PingSpawn ==
    /\ ~crashed
    /\ pingPc = "spawn"
    /\ pingBackends' = Backends
    /\ pingProbed' = [i \in 1..Len(Backends) |-> FALSE]
    /\ pingPc' = "probing"
    /\ UNCHANGED <<cfgVars, Health, cursor, crashed, postVars, rrVars, lookupVars, debugVars, pingLen, statuses, pingResp,
                   defaultBackend,                   predVars>>

\* statuses[idx] = status panics when idx is outside the slice
ProbeIndexInRange(idx) == idx <= pingLen

\* one probe goroutine: the probe, statuses[idx] = status, cfg.SetHealthStatus
PingProbe(idx, answer) ==
    /\ ~crashed
    /\ pingPc = "probing"
    /\ ~pingProbed[idx]
    /\ LET b == pingBackends[idx]
           status == CheckBackendHealth(b.url, answer)
       IN  IF ProbeIndexInRange(idx)
           THEN /\ Health' = IF status.status = "healthy"
                             THEN SetHealthStatus(Health, b.name, HealthStatusHealthy, "")
                             ELSE SetHealthStatus(Health, b.name, HealthStatusUnhealthy,
                                                  status.error)
                /\ statuses' = [statuses EXCEPT ![idx] = status]
                /\ pingProbed' = [pingProbed EXCEPT ![idx] = TRUE]
                /\ UNCHANGED crashed
           ELSE /\ crashed' = TRUE
                /\ UNCHANGED <<Health, statuses, pingProbed>>
    /\ UNCHANGED <<cfgVars, cursor, postVars, rrVars, lookupVars, debugVars, pingPc, pingLen, pingBackends, pingResp,
                   defaultBackend,                   predVars>>

\* PingProbesDone that waits for the first probe only
PingProbesDoneFirst == \E i \in 1..Len(pingProbed) : pingProbed[i]

\* wg.Wait()
PingProbesDone == \A i \in 1..Len(pingProbed) : pingProbed[i]

\* the default backend exists and its health status is healthy
PingCheckDefault ==
    /\ ~crashed
    /\ pingPc = "probing"
    /\ PingProbesDone
    /\ defaultBackend' = GetDefaultBackend
    /\ IF defaultBackend' = <<>>
       THEN pingPc' = "done" /\ pingResp' = StatusServiceUnavailable
       ELSE IF GetHealthStatus(defaultBackend'[1].name).status # HealthStatusHealthy
            THEN pingPc' = "done" /\ pingResp' = StatusServiceUnavailable
            ELSE pingPc' = "types" /\ UNCHANGED pingResp
    /\ UNCHANGED <<cfgVars, Health, cursor, crashed, postVars, rrVars, lookupVars, debugVars, pingLen, statuses,
                   pingBackends, pingProbed, predVars>>

\* AllTypesHealthy that skips the routed types
AllTypesHealthySkipped == TRUE

\* for _, typeName := range allTypes: no type without a healthy backend
AllTypesHealthy == \A typeName \in GetAllTypes : Len(GetHealthyBackendsByType(typeName)) # 0

\* every type of taskRouting has a healthy backend
PingCheckTypes ==
    /\ ~crashed
    /\ pingPc = "types"
    /\ pingPc' = "done"
    /\ pingResp' = IF AllTypesHealthy THEN StatusOK ELSE StatusServiceUnavailable
    /\ UNCHANGED <<cfgVars, Health, cursor, crashed, postVars, rrVars, lookupVars, debugVars, pingLen, statuses,
                   pingBackends, pingProbed, defaultBackend, predVars>>

\* the handler returns: its locals are gone
PingReturn ==
    /\ ~crashed
    /\ pingPc = "done"
    /\ pingPc' = "idle"
    /\ pingLen' = 0
    /\ statuses' = <<>>
    /\ pingBackends' = <<>>
    /\ pingProbed' = <<>>
    /\ defaultBackend' = <<>>
    /\ pingResp' = 0
    /\ UNCHANGED <<cfgVars, Health, cursor, crashed, postVars, rrVars, lookupVars, debugVars, predVars>>

Ping(answers, concurrent) ==
    \/ PingBegin(concurrent)
    \/ PingSpawn
    \/ \E idx \in 1..Len(pingProbed) : \E answer \in answers : PingProbe(idx, answer)
    \/ PingCheckDefault
    \/ PingCheckTypes
    \/ PingReturn

(***************************************************************************)
(* package proxy: parsing, grouping and re-nesting of entries.             *)
(***************************************************************************)
\* A task's value of the entries object: a JSON object of type -> payload, or not
ObjectOf(types) == [isObject |-> TRUE, types |-> types]
NotAnObject == [isObject |-> FALSE, types |-> EmptyMap]

\* The entries form field of the requests the model sends: absent or empty text,
\* text that is not JSON, JSON that is neither an object nor null, the JSON null
\* (which decodes to a nil map without error), or an object task -> value.
NoTasks == [k \in {} |-> NotAnObject]
PredictInputs ==
    { [present |-> FALSE, json |-> "object",    tasks |-> NoTasks],
      [present |-> TRUE,  json |-> "invalid",   tasks |-> NoTasks],
      [present |-> TRUE,  json |-> "nonobject", tasks |-> NoTasks],
      [present |-> TRUE,  json |-> "null",      tasks |-> NoTasks],
      [present |-> TRUE,  json |-> "object",    tasks |-> NoTasks],
      [present |-> TRUE,  json |-> "object",    tasks |-> [ocr |-> ObjectOf(EmptyMap)]],
      [present |-> TRUE,  json |-> "object",    tasks |-> [ocr |-> NotAnObject]],
      [present |-> TRUE,  json |-> "object",
       tasks |-> [clip |-> ObjectOf([visual |-> "p"]), ocr |-> NotAnObject]],
      [present |-> TRUE,  json |-> "object",
       tasks |-> [ocr |-> ObjectOf([image |-> "p"])]],
      [present |-> TRUE,  json |-> "object",
       tasks |-> [clip |-> ObjectOf([visual |-> "p"])]],
      [present |-> TRUE,  json |-> "object",
       tasks |-> [clip |-> ObjectOf([visual |-> "p"]), ocr |-> ObjectOf([image |-> "q"])]],
      [present |-> TRUE,  json |-> "object",
       tasks |-> [clip |-> ObjectOf([image |-> "p"]), ocr |-> ObjectOf([image |-> "q"])]] }

\* nothing parsed yet
NoParse ==
    [parsed |-> FALSE, input |-> [present |-> FALSE, json |-> "", tasks |-> NoTasks],
     entries |-> <<>>, typeEntries |-> EmptyMap, entriesForType |-> EmptyMap]

\* no request: the handler is not running
NoRequest == [present |-> FALSE, json |-> "", tasks |-> NoTasks]

\* ParseEntriesFromRequest: the error, or "" when the field decodes to a map
ParseEntriesFromRequestErr(input) ==
    IF ~input.present THEN "entries field is required"
    ELSE IF input.json \notin {"object", "null"} THEN "invalid character"
    ELSE ""

\* ParseEntries that takes a task whose value is not an object for one with no type
ParseEntriesErrIgnored(input) == ""

\* ParseEntries: the error, or "" when every task's value is an object
ParseEntriesErr(input) ==
    IF \E task \in DOMAIN input.tasks : ~input.tasks[task].isObject
    THEN "invalid types structure for task"
    ELSE ""

\* the (task, type) pairs of the entries object
TaskTypePairs(input) ==
    {pr \in (DOMAIN input.tasks) \X Types : pr[2] \in DOMAIN input.tasks[pr[1]].types}

\* The orders in which the two nested range loops of ParseEntries can meet the
\* (task, type) pairs: Go ranges over a map in an unspecified order, a task's types
\* one after the other.
IterationOrders(input) ==
    LET pairs == TaskTypePairs(input)
        n == Cardinality(pairs)
    IN  {ord \in [1..n -> pairs] :
            /\ \A i, j \in 1..n : i # j => ord[i] # ord[j]
            /\ \A i, j, k \in 1..n :
                  (i < j /\ j < k /\ ord[i][1] = ord[k][1]) => ord[j][1] = ord[i][1]}

\* ParseEntries with index declared inside the loop over the tasks: the numbering
\* starts again at 0 for every task
ParseEntriesIndexPerTask(input, ord) ==
    [i \in 1..Len(ord) |->
        [task |-> ord[i][1], type |-> ord[i][2],
         data |-> input.tasks[ord[i][1]].types[ord[i][2]],
         index |-> Cardinality({j \in 1..(i - 1) : ord[j][1] = ord[i][1]})]]

\* ParseEntries: the flattened list for one iteration order
ParseEntries(input, ord) ==
    [i \in 1..Len(ord) |->
        [task |-> ord[i][1], type |-> ord[i][2],
         data |-> input.tasks[ord[i][1]].types[ord[i][2]], index |-> i - 1]]

IsType(typeName, entry) == entry.type = typeName

\* GroupEntriesByType: map type -> the entries of that type, in their order
GroupEntriesByType(es) ==
    [typeName \in {es[i].type : i \in 1..Len(es)} |->
        SelectSeq(es, LAMBDA entry : IsType(typeName, entry))]

\* BuildEntriesForType giving every task of the group the payload of the first entry
BuildEntriesForTypeFirstPayload(te) ==
    [task \in {te[i].task : i \in 1..Len(te)} |->
        [typeKey \in {te[i].type : i \in {j \in 1..Len(te) : te[j].task = task}} |->
            te[1].data]]

\* BuildEntriesForType: the group re-nested as task -> type -> payload
BuildEntriesForType(te) ==
    [task \in {te[i].task : i \in 1..Len(te)} |->
        [typeKey \in {te[i].type : i \in {j \in 1..Len(te) : te[j].task = task}} |->
            LET last == CHOOSE i \in 1..Len(te) :
                            /\ te[i].task = task /\ te[i].type = typeKey
                            /\ \A j \in 1..Len(te) :
                                  (te[j].task = task /\ te[j].type = typeKey) => j <= i
            IN  te[last].data]]

(***************************************************************************)
(* package proxy: the outbound call of a type group.                       *)
(***************************************************************************)
\* The multipart form of every request beside entries: the file part image and
\* the text sent as a form value.
RequestForm == [files |-> {"image"}, values |-> {"text"}]

\* The POST to backendURL/predict: the entries of the group, and of the original
\* form the file parts (r.MultipartForm.File); r.MultipartForm.Value is not read.
ForwardPredictRequestWithType(backendURL, entriesJSON) ==
    [url |-> backendURL \o "/predict", entries |-> entriesJSON,
     files |-> RequestForm.files, values |-> {}]

(***************************************************************************)
(* proxy.GetNextBackend: round-robin selection (not among the sources).    *)
(***************************************************************************)
\* GetNextBackend that ignores the cursor
GetNextBackendFirst(typeName, backendList) ==
    IF Len(backendList) = 0 THEN "" ELSE backendList[1]

\* the URL at the type's cursor modulo the length of the list, "" for no list
GetNextBackend(typeName, backendList) ==
    IF Len(backendList) = 0 THEN ""
    ELSE backendList[(cursor[typeName] % Len(backendList)) + 1]

\* AdvanceCursor with one counter for all types
AdvanceCursorShared(typeName, backendList) ==
    IF Len(backendList) = 0 THEN cursor
    ELSE [t \in DOMAIN cursor |-> cursor[t] + 1]

\* the cursor after a selection: advanced by one when a backend was returned
AdvanceCursor(typeName, backendList) ==
    IF Len(backendList) = 0 THEN cursor
    ELSE [cursor EXCEPT ![typeName] = @ + 1]

(***************************************************************************)
(* PredictHandler: POST /predict.                                          *)
(***************************************************************************)
NoResponse == [status |-> 0, error |-> "", errors |-> {}, result |-> EmptyMap]
ErrorResponse(status, error) ==
    [status |-> status, error |-> error, errors |-> {}, result |-> EmptyMap]

NoWorkers == [t \in Types |-> "none"]
NoBackends == [t \in Types |-> <<>>]
NoAnswers == [t \in Types |-> "none"]
NoCalls == [t \in Types |-> <<>>]

\* What a backend's POST /predict can give: a transport error, a non-200 answer,
\* or 200 with a body that is a JSON object, is not JSON, or cannot be read.
ResultBodies == { [clip |-> "r1"], [clip |-> "r2"], [ocr |-> "r1"] }
PredictAnswers ==
    {[kind |-> "transport", code |-> 0, json |-> EmptyMap],
     [kind |-> "status", code |-> StatusInternalServerError, json |-> EmptyMap],
     [kind |-> "badjson", code |-> StatusOK, json |-> EmptyMap],
     [kind |-> "unreadable", code |-> StatusOK, json |-> EmptyMap]}
    \cup {[kind |-> "ok", code |-> StatusOK, json |-> body] : body \in ResultBodies}

\* PredictBegin that answers 400 for a task that is not an object only after the
\* groups of the other tasks were started
PredictBeginFanOutFirst(input, ord, concurrent) ==
    /\ MayBegin(concurrent)
    /\ predPc = "idle"
    /\ \A t \in Types : cursor[t] < MaxCursor
    /\ predReq' = input
    /\ whealthy' = NoBackends
    /\ wsel' = NoBackends
    /\ wresp' = NoAnswers
    /\ wcalls' = NoCalls
    /\ typeResults' = EmptyMap
    /\ typeErrors' = EmptyMap
    /\ IF ParseEntriesFromRequestErr(input) # ""
       THEN /\ predResp' = ErrorResponse(StatusBadRequest,
                               "Invalid entries: " \o ParseEntriesFromRequestErr(input))
            /\ predPc' = "done" /\ entries' = <<>> /\ wpc' = NoWorkers
       ELSE IF Len(ParseEntries(input, ord)) = 0
       THEN /\ predResp' = ErrorResponse(StatusBadRequest, "No entries specified")
            /\ predPc' = "done" /\ entries' = <<>> /\ wpc' = NoWorkers
       ELSE /\ predResp' = IF ParseEntriesErr(input) # ""
                           THEN ErrorResponse(StatusBadRequest,
                                    "Failed to parse entries: " \o ParseEntriesErr(input))
                           ELSE NoResponse
            /\ predPc' = IF ParseEntriesErr(input) # "" THEN "done" ELSE "running"
            /\ entries' = ParseEntries(input, ord)
            /\ wpc' = [t \in Types |->
                         IF t \in DOMAIN GroupEntriesByType(ParseEntries(input, ord))
                         THEN "start" ELSE "none"]
    /\ UNCHANGED <<cfgVars, Health, cursor, crashed, postVars, rrVars, lookupVars, debugVars, pingVars>>

\* the three parse-time checks, then the fan-out: one goroutine per type group
PredictBegin(input, ord, concurrent) ==
    /\ MayBegin(concurrent)
    /\ predPc = "idle"
    /\ \A t \in Types : cursor[t] < MaxCursor
    /\ predReq' = input
    /\ whealthy' = NoBackends
    /\ wsel' = NoBackends
    /\ wresp' = NoAnswers
    /\ wcalls' = NoCalls
    /\ typeResults' = EmptyMap
    /\ typeErrors' = EmptyMap
    /\ IF ParseEntriesFromRequestErr(input) # ""
       THEN /\ predResp' = ErrorResponse(StatusBadRequest,
                               "Invalid entries: " \o ParseEntriesFromRequestErr(input))
            /\ predPc' = "done" /\ entries' = <<>> /\ wpc' = NoWorkers
       ELSE IF ParseEntriesErr(input) # ""
       THEN /\ predResp' = ErrorResponse(StatusBadRequest,
                               "Failed to parse entries: " \o ParseEntriesErr(input))
            /\ predPc' = "done" /\ entries' = <<>> /\ wpc' = NoWorkers
       ELSE IF Len(ParseEntries(input, ord)) = 0
       THEN /\ predResp' = ErrorResponse(StatusBadRequest, "No entries specified")
            /\ predPc' = "done" /\ entries' = <<>> /\ wpc' = NoWorkers
       ELSE /\ predResp' = NoResponse
            /\ predPc' = "running"
            /\ entries' = ParseEntries(input, ord)
            /\ wpc' = [t \in Types |->
                         IF t \in DOMAIN GroupEntriesByType(ParseEntries(input, ord))
                         THEN "start" ELSE "none"]
    /\ UNCHANGED <<cfgVars, Health, cursor, crashed, postVars, rrVars, lookupVars, debugVars, pingVars>>

\* FailGroup with fail-fast cancellation: the first failure ends the sibling groups
FailGroupCancelling(t, err) ==
    /\ typeErrors' = [x \in DOMAIN typeErrors \cup {u \in Types : wpc[u] \notin {"none", "done"}} |->
                         IF x = t THEN err
                         ELSE IF x \in DOMAIN typeErrors THEN typeErrors[x]
                         ELSE "context canceled"]
    /\ wpc' = [u \in Types |-> IF wpc[u] = "none" THEN "none" ELSE "done"]

\* FailGroup that lets a group whose first call failed call its backend once more
FailGroupRetrying(t, err) ==
    IF wpc[t] = "forward" /\ Len(wcalls[t]) = 0
    THEN UNCHANGED <<typeErrors, wpc>>
    ELSE /\ typeErrors' = [x \in DOMAIN typeErrors \cup {t} |->
                              IF x = t THEN err ELSE typeErrors[x]]
         /\ wpc' = [wpc EXCEPT ![t] = "done"]

\* FailGroup that returns without an entry in typeErrors
FailGroupUnrecorded(t, err) ==
    /\ UNCHANGED typeErrors
    /\ wpc' = [wpc EXCEPT ![t] = "done"]

\* typeErrors[t] = err under resultMutex; the goroutine returns
FailGroup(t, err) ==
    /\ typeErrors' = [x \in DOMAIN typeErrors \cup {t} |->
                         IF x = t THEN err ELSE typeErrors[x]]
    /\ wpc' = [wpc EXCEPT ![t] = "done"]

\* the group has an entry of task clip
HasClipEntry(te) == \E i \in 1..Len(te) : te[i].task = "clip"

\* lines 152-176: the clip routing by model type, else the healthy backends of the type
WorkerStart(t) ==
    /\ ~crashed
    /\ wpc[t] = "start"
    /\ LET te == GroupEntriesByType(entries)[t]
           byModel == IF HasClipEntry(te) THEN GetBackendByModelType(t) ELSE <<>>
       IN  IF byModel # <<>>
           THEN /\ wsel' = [wsel EXCEPT ![t] = byModel]
                /\ wpc' = [wpc EXCEPT ![t] = "forward"]
                /\ UNCHANGED whealthy
           ELSE /\ whealthy' = [whealthy EXCEPT ![t] = GetHealthyBackendsByType(t)]
                /\ wpc' = [wpc EXCEPT ![t] = "select"]
                /\ UNCHANGED wsel
    /\ UNCHANGED <<cfgVars, Health, cursor, crashed, postVars, rrVars, lookupVars, debugVars, pingVars,
                   predPc, predReq, entries, wresp, wcalls, typeResults, typeErrors, predResp>>

URLsOf(bs) == [i \in 1..Len(bs) |-> bs[i].url]

\* BackendList without the fallback to all backends
BackendListHealthyOnly(healthyBackends, allBackends) == URLsOf(healthyBackends)

\* the list round-robin selects from: the healthy backends, else all of the type
BackendList(healthyBackends, allBackends) ==
    IF Len(healthyBackends) > 0 THEN URLsOf(healthyBackends) ELSE URLsOf(allBackends)

NoBackendError(t) == "no backend available for type: " \o t

\* lines 179-230: all backends of the type; the default backend when there is none,
\* else round-robin over the list and the look-up of the selected URL
WorkerSelect(t) ==
    /\ ~crashed
    /\ wpc[t] = "select"
    /\ LET allBackends == GetBackendsByType(t)
           backendList == BackendList(whealthy[t], allBackends)
           selectedURL == GetNextBackend(t, backendList)
           selected == FindByURL(allBackends, selectedURL)
       IN  IF Len(allBackends) = 0
           THEN /\ IF GetDefaultBackend # <<>>
                   THEN /\ wsel' = [wsel EXCEPT ![t] = GetDefaultBackend]
                        /\ wpc' = [wpc EXCEPT ![t] = "forward"]
                        /\ UNCHANGED typeErrors
                   ELSE /\ FailGroup(t, NoBackendError(t))
                        /\ UNCHANGED wsel
                /\ UNCHANGED <<cursor, crashed>>
           ELSE /\ cursor' = AdvanceCursor(t, backendList)
                /\ IF selectedURL = ""
                   THEN /\ FailGroup(t, NoBackendError(t))
                        /\ UNCHANGED <<wsel, crashed>>
                   ELSE IF selected # <<>>
                   THEN /\ wsel' = [wsel EXCEPT ![t] = selected]
                        /\ wpc' = [wpc EXCEPT ![t] = "forward"]
                        /\ UNCHANGED <<typeErrors, crashed>>
                   \* selectedBackend stays nil: selectedBackend.URL panics
                   ELSE /\ crashed' = TRUE
                        /\ wpc' = [wpc EXCEPT ![t] = "panic"]
                        /\ UNCHANGED <<wsel, typeErrors>>
    /\ UNCHANGED <<cfgVars, Health, postVars, rrVars, lookupVars, debugVars, pingVars,
                   predPc, predReq, entries, whealthy, wresp, wcalls, typeResults, predResp>>

\* HealthAfterForward that reports failures only: a 200 leaves the record as it was
HealthAfterForwardFailuresOnly(h, name, answer) ==
    IF answer.kind = "transport"
    THEN SetHealthStatus(h, name, HealthStatusUnhealthy, "dial error")
    ELSE IF answer.code = StatusOK
    THEN h
    ELSE SetHealthStatus(h, name, HealthStatusUnhealthy, "status 500: body")

\* HealthAfterForward writing the status and the error one after the other outside
\* the lock: the status of this write beside the error of the write before
HealthAfterForwardTorn(h, name, answer) ==
    LET whole == IF answer.kind = "transport"
                 THEN SetHealthStatus(h, name, HealthStatusUnhealthy, "dial error")
                 ELSE IF answer.code = StatusOK
                 THEN SetHealthStatus(h, name, HealthStatusHealthy, "")
                 ELSE SetHealthStatus(h, name, HealthStatusUnhealthy, "status 500: body")
    IN  IF name \in DOMAIN h
        THEN [whole EXCEPT ![name].error = h[name].error]
        ELSE whole

\* the health status the forwarder reports for the answer of the backend
HealthAfterForward(h, name, answer) ==
    IF answer.kind = "transport"
    THEN SetHealthStatus(h, name, HealthStatusUnhealthy, "dial error")
    ELSE IF answer.code = StatusOK
    THEN SetHealthStatus(h, name, HealthStatusHealthy, "")
    ELSE SetHealthStatus(h, name, HealthStatusUnhealthy, "status 500: body")

\* the error of the group for the answer, "" when the group succeeded
ForwardError(answer) ==
    IF answer.kind = "transport" THEN "dial error"
    ELSE IF answer.kind = "unreadable" THEN "unexpected EOF"
    ELSE IF answer.code # StatusOK
         THEN "backend returned status " \o ToString(answer.code) \o ": body"
    ELSE IF answer.kind = "badjson" THEN "invalid character"
    ELSE ""

\* lines 232-308: the forwarded call returns; health update, then result or error
WorkerForward(t, answer) ==
    /\ ~crashed
    /\ wpc[t] = "forward"
    /\ wresp' = [wresp EXCEPT ![t] = answer.kind]
    /\ wcalls' = [wcalls EXCEPT ![t] =
                     Append(@, ForwardPredictRequestWithType(wsel[t][1].url,
                                   BuildEntriesForType(GroupEntriesByType(entries)[t])))]
    /\ Health' = HealthAfterForward(Health, wsel[t][1].name, answer)
    /\ IF ForwardError(answer) # ""
       THEN /\ FailGroup(t, ForwardError(answer))
            /\ UNCHANGED typeResults
       ELSE /\ typeResults' = [x \in DOMAIN typeResults \cup {t} |->
                                  IF x = t THEN answer.json ELSE typeResults[x]]
            /\ wpc' = [wpc EXCEPT ![t] = "done"]
            /\ UNCHANGED typeErrors
    /\ UNCHANGED <<cfgVars, cursor, crashed, postVars, rrVars, lookupVars, debugVars, pingVars,
                   predPc, predReq, entries, whealthy, wsel, predResp>>

\* WaitGroupDone that returns with the first goroutine
WaitGroupFirstDone == \E t \in Types : wpc[t] = "done"

\* wg.Wait(): every goroutine of the request has returned
WaitGroupDone == \A t \in Types : wpc[t] \in {"none", "done"}

\* MergeInto that replaces what was merged before
MergeIntoReplacing(final, typeResult) == typeResult

\* for key, value := range typeResult { finalResult[key] = value }
MergeInto(final, typeResult) ==
    [key \in DOMAIN final \cup DOMAIN typeResult |->
        IF key \in DOMAIN typeResult THEN typeResult[key] ELSE final[key]]

\* lines 327-338: the results merged entry by entry, in the order of entries
RECURSIVE AssembleFrom(_, _, _, _)
AssembleFrom(es, results, i, final) ==
    IF i > Len(es) THEN final
    ELSE AssembleFrom(es, results, i + 1,
             IF es[i].type \in DOMAIN results
             THEN MergeInto(final, results[es[i].type])
             ELSE final)

Assemble(es, results) == AssembleFrom(es, results, 1, EmptyMap)

\* ErrorMessages without the type in front of each message
ErrorMessagesUntyped(errs) == {errs[t] : t \in DOMAIN errs}

\* errMsgs: fmt.Sprintf("type %s: %v", t, err) for each entry of typeErrors
ErrorMessages(errs) == {"type " \o t \o ": " \o errs[t] : t \in DOMAIN errs}

\* PredictResponse that answers 200 with what succeeded when some group did
PredictResponsePartial(es, results, errs) ==
    IF DOMAIN errs # {} /\ DOMAIN results = {}
    THEN [status |-> StatusInternalServerError, error |-> "Failed to process some types",
          errors |-> ErrorMessages(errs), result |-> EmptyMap]
    ELSE [status |-> StatusOK, error |-> "", errors |-> {},
          result |-> Assemble(es, results)]

\* lines 312-341: the response after the barrier
PredictResponse(es, results, errs) ==
    IF DOMAIN errs # {}
    THEN [status |-> StatusInternalServerError, error |-> "Failed to process some types",
          errors |-> ErrorMessages(errs), result |-> EmptyMap]
    ELSE [status |-> StatusOK, error |-> "", errors |-> {},
          result |-> Assemble(es, results)]

PredictRespond ==
    /\ ~crashed
    /\ predPc = "running"
    /\ WaitGroupDone
    /\ predResp' = PredictResponse(entries, typeResults, typeErrors)
    /\ predPc' = "done"
    /\ UNCHANGED <<cfgVars, Health, cursor, crashed, postVars, rrVars, lookupVars, debugVars, pingVars,
                   predReq, entries, wpc, whealthy, wsel, wresp, wcalls, typeResults,
                   typeErrors>>

\* the handler returns: its locals are gone
PredictReturn ==
    /\ ~crashed
    /\ predPc = "done"
    /\ predPc' = "idle"
    /\ predReq' = NoRequest
    /\ entries' = <<>>
    /\ wpc' = NoWorkers
    /\ whealthy' = NoBackends
    /\ wsel' = NoBackends
    /\ wresp' = NoAnswers
    /\ wcalls' = NoCalls
    /\ typeResults' = EmptyMap
    /\ typeErrors' = EmptyMap
    /\ predResp' = NoResponse
    /\ UNCHANGED <<cfgVars, Health, cursor, crashed, postVars, rrVars, lookupVars, debugVars, pingVars>>

Predict(inputs, answers, concurrent) ==
    \/ \E input \in inputs : \E ord \in IterationOrders(input) :
          PredictBegin(input, ord, concurrent)
    \/ \E t \in Types : WorkerStart(t)
    \/ \E t \in Types : WorkerSelect(t)
    \/ \E t \in Types : \E answer \in answers : WorkerForward(t, answer)
    \/ PredictRespond
    \/ PredictReturn

\* maxRecords: 100 in GetInstance
DefaultMaxRecords == 100

\* &DebugManager{enabled: false, maxRecords: 100, records: ..., recordMap: ...}
NewSliceManager ==
    [enabled |-> FALSE, maxRecords |-> DefaultMaxRecords, records |-> <<>>,
     recordMap |-> EmptyMap]

\* &DebugManager{enabled: false, maxRecords: 100, records: make(map[string]HTTPRecord)}
NewMapManager ==
    [enabled |-> FALSE, maxRecords |-> DefaultMaxRecords, records |-> EmptyMap]

(***************************************************************************)
(* The service.                                                            *)
(***************************************************************************)
\* config.Load() with no config.json; no request yet
Init ==
    /\ DefaultBackend = ""
    /\ Backends = <<>>
    /\ TaskRouting = EmptyMap
    /\ ModelTypeRouting = EmptyMap
    /\ Health = EmptyMap
    /\ cursor = [t \in Types |-> 0]
    /\ crashed = FALSE
    /\ postPc = "idle" /\ postReq = NoConfig /\ postResp = 0 /\ postOld = NoConfig
    /\ pingPc = "idle" /\ pingLen = 0 /\ statuses = <<>>
    /\ pingBackends = <<>> /\ pingProbed = <<>>
    /\ pingResp = 0
    /\ defaultBackend = <<>>
    /\ predPc = "idle" /\ predReq = NoRequest /\ entries = <<>>
    /\ wpc = NoWorkers /\ whealthy = NoBackends
    /\ wsel = NoBackends /\ wresp = NoAnswers /\ wcalls = NoCalls
    /\ typeResults = EmptyMap /\ typeErrors = EmptyMap /\ predResp = NoResponse
    /\ rrList = <<>> /\ rrPicks = <<>>
    /\ lookup = NoLookup /\ probe = NoProbe /\ parse = NoParse
    /\ dm = NewSliceManager /\ mdm = NewMapManager /\ now = 0 /\ added = 0

\* requests served one after the other; the workers of a request run concurrently
Next ==
    \/ ConfigPost(PostedConfigs, FALSE)
    \/ Ping(PingAnswers, FALSE)
    \/ Predict(PredictInputs, PredictAnswers, FALSE)

Spec == Init /\ [][Next]_vars

(***************************************************************************)
(* The same handlers running concurrently, on fewer request bodies and     *)
(* backend answers.                                                        *)
(***************************************************************************)
ConcurrentConfigs ==
    {req \in PostedConfigs :
        \/ req.defaultBackend = ""
        \/ (req.backends = <<BackendA, BackendB>> /\ DOMAIN req.taskRouting = {"image"})}

ConcurrentInputs ==
    {input \in PredictInputs :
        \/ ~input.present
        \/ TaskTypePairs(input) = {<<"clip", "visual">>, <<"ocr", "image">>}}

ConcurrentAnswers ==
    {answer \in PredictAnswers :
        \/ answer.kind \in {"transport", "status"}
        \/ (answer.kind = "ok" /\ answer.json = [clip |-> "r1"])}

ConcurrentPingAnswers ==
    {answer \in PingAnswers : answer.err \/ (answer.code = StatusOK /\ answer.body = "pong")}

NextConcurrent ==
    \/ ConfigPost(ConcurrentConfigs, TRUE)
    \/ Ping(ConcurrentPingAnswers, TRUE)
    \/ Predict(ConcurrentInputs, ConcurrentAnswers, TRUE)

SpecConcurrent == Init /\ [][NextConcurrent]_vars

\* the steps of a /predict request in flight: its group goroutines and the
\* handler behind the barrier
PredictProgress ==
    \/ \E t \in Types : WorkerStart(t)
    \/ \E t \in Types : WorkerSelect(t)
    \/ \E t \in Types : \E answer \in ConcurrentAnswers : WorkerForward(t, answer)
    \/ PredictRespond

\* The Go scheduler runs every runnable goroutine, no lock is held across a
\* blocking call, and the forwarder's http.Client has a Timeout, so every call
\* to a backend returns: a step of a request in flight that stays possible is
\* taken.
SpecConcurrentFair == SpecConcurrent /\ WF_vars(PredictProgress)

(***************************************************************************)
(* GET /ping while POST /api/config replaces the registry, with posted     *)
(* configs of zero, one and two backends.                                  *)
(***************************************************************************)
NextPingReplace ==
    \/ ConfigPost(PostedConfigs, TRUE)
    \/ Ping(ConcurrentPingAnswers, TRUE)

SpecPingReplace == Init /\ [][NextPingReplace]_vars

(***************************************************************************)
(* proxy.GetNextBackend called with lists of any length: the handlers      *)
(* never hand it more than one backend (GetBackendsByType returns at most  *)
(* one), so its rotation shows only here.                                  *)
(***************************************************************************)
ListURLs == {"u" \o ToString(i) : i \in 1..MaxList}

\* the lists of distinct backend URLs, the empty list among them
BackendLists ==
    UNION {{list \in [1..n -> ListURLs] : \A i, j \in 1..n : i # j => list[i] # list[j]}
           : n \in 0..MaxList}

InitRoundRobin ==
    /\ DefaultBackend = ""
    /\ Backends = <<>>
    /\ TaskRouting = EmptyMap
    /\ ModelTypeRouting = EmptyMap
    /\ Health = EmptyMap
    /\ cursor \in [Types -> 0..MaxCursor]
    /\ crashed = FALSE
    /\ postPc = "idle" /\ postReq = NoConfig /\ postResp = 0 /\ postOld = NoConfig
    /\ pingPc = "idle" /\ pingLen = 0 /\ statuses = <<>>
    /\ pingBackends = <<>> /\ pingProbed = <<>>
    /\ pingResp = 0
    /\ defaultBackend = <<>>
    /\ predPc = "idle" /\ predReq = NoRequest /\ entries = <<>>
    /\ wpc = NoWorkers /\ whealthy = NoBackends
    /\ wsel = NoBackends /\ wresp = NoAnswers /\ wcalls = NoCalls
    /\ typeResults = EmptyMap /\ typeErrors = EmptyMap /\ predResp = NoResponse
    /\ rrList \in BackendLists /\ rrPicks = <<>>
    /\ lookup = NoLookup /\ probe = NoProbe /\ parse = NoParse
    /\ dm = NewSliceManager /\ mdm = NewMapManager /\ now = 0 /\ added = 0

\* selectedURL := proxy.GetNextBackend(t, backendList)
RoundRobinSelect(t) ==
    /\ Len(rrPicks) < MaxPicks
    /\ rrPicks' = Append(rrPicks, [type |-> t, url |-> GetNextBackend(t, rrList)])
    /\ cursor' = AdvanceCursor(t, rrList)
    /\ UNCHANGED <<cfgVars, Health, crashed, postVars, pingVars, predVars, rrList, lookupVars, debugVars>>

NextRoundRobin == \E t \in Types : RoundRobinSelect(t)

SpecRoundRobin == InitRoundRobin /\ [][NextRoundRobin]_vars

\* selectedURL := proxy.GetNextBackend(t, backendList), by any worker of any
\* request and with the list that worker built: the calls of concurrent workers
\* in the order in which they take effect
RoundRobinSelectFrom(t, backendList) ==
    /\ Len(rrPicks) < MaxPicks
    /\ rrPicks' = Append(rrPicks, [type |-> t, url |-> GetNextBackend(t, backendList)])
    /\ cursor' = AdvanceCursor(t, backendList)
    /\ UNCHANGED <<cfgVars, Health, crashed, postVars, pingVars, predVars, rrList,
                   lookupVars, debugVars>>

NextRoundRobinPools ==
    \E t \in Types : \E backendList \in BackendLists : RoundRobinSelectFrom(t, backendList)

SpecRoundRobinPools == Init /\ [][NextRoundRobinPools]_vars

(***************************************************************************)
(* The lookups of the registry called on any registry config.json can      *)
(* hold: loadFromFile takes DefaultBackend, Backends and TaskRouting from   *)
(* the file as they are.                                                   *)
(***************************************************************************)
\* backends in the list of a loaded config.json
MaxBackends == 2

\* the lists of up to MaxBackends backends, two entries of one name among them
LoadedBackends ==
    UNION {[1..n -> {BackendA, BackendB, BackendA2}] : n \in 0..MaxBackends}

\* the routing tables: any type to any name
LoadedRoutings ==
    UNION {[types -> {"A", "B"}] : types \in SUBSET Types}

InitLookup ==
    /\ DefaultBackend \in {"", "A", "B"}
    /\ Backends \in LoadedBackends
    /\ TaskRouting \in LoadedRoutings
    /\ ModelTypeRouting = EmptyMap
    /\ Health = EmptyMap
    /\ cursor = [t \in Types |-> 0]
    /\ crashed = FALSE
    /\ postPc = "idle" /\ postReq = NoConfig /\ postResp = 0 /\ postOld = NoConfig
    /\ pingPc = "idle" /\ pingLen = 0 /\ statuses = <<>>
    /\ pingBackends = <<>> /\ pingProbed = <<>>
    /\ pingResp = 0
    /\ defaultBackend = <<>>
    /\ predPc = "idle" /\ predReq = NoRequest /\ entries = <<>>
    /\ wpc = NoWorkers /\ whealthy = NoBackends
    /\ wsel = NoBackends /\ wresp = NoAnswers /\ wcalls = NoCalls
    /\ typeResults = EmptyMap /\ typeErrors = EmptyMap /\ predResp = NoResponse
    /\ rrList = <<>> /\ rrPicks = <<>>
    /\ lookup = NoLookup /\ probe = NoProbe /\ parse = NoParse
    /\ dm = NewSliceManager /\ mdm = NewMapManager /\ now = 0 /\ added = 0

\* url := cfg.GetBackendURL(task)
LookupBackendURL(task) ==
    /\ lookup' = [NoLookup EXCEPT !.type = task, !.url = GetBackendURL(task)]
    /\ UNCHANGED <<cfgVars, Health, cursor, crashed, postVars, pingVars, predVars, rrVars,
                   probe, parse, debugVars>>

\* status := proxy.CheckBackendHealth(backendURL)
ProbeBackendHealth(backendURL, answer) ==
    /\ probe' = [answer |-> answer, result |-> CheckBackendHealth(backendURL, answer)]
    /\ UNCHANGED <<cfgVars, Health, cursor, crashed, postVars, pingVars, predVars, rrVars,
                   lookup, parse, debugVars>>

NextLookup ==
    \/ \E task \in Types : LookupBackendURL(task)
    \/ \E backendURL \in {"uA", "uB"} : \E answer \in PingAnswers :
          ProbeBackendHealth(backendURL, answer)

SpecLookup == InitLookup /\ [][NextLookup]_vars

(***************************************************************************)
(* The parsing functions of package proxy called on any entries object of  *)
(* up to two tasks whose values are objects, as PredictHandler calls them: *)
(* ParseEntries, GroupEntriesByType, BuildEntriesForType of each group.    *)
(***************************************************************************)
\* the objects type -> payload a task can hold
TypeObjects == UNION {[types -> {"p", "q"}] : types \in SUBSET Types}

\* the entries objects: each of clip and ocr absent or holding an object
EntriesObjects ==
    UNION {[tasks -> {ObjectOf(types) : types \in TypeObjects}] :
               tasks \in SUBSET {"clip", "ocr"}}

\* entries, err := proxy.ParseEntries(entriesMap); typeEntries :=
\* proxy.GroupEntriesByType(entries); entriesForType, err :=
\* proxy.BuildEntriesForType(te) for every group
ParseRequest(tasks, ord) ==
    /\ parse' =
          LET input == [present |-> TRUE, json |-> "object", tasks |-> tasks]
              result == ParseEntries(input, ord)
              typeEntries == GroupEntriesByType(result)
          IN  [parsed |-> TRUE, input |-> input, entries |-> result,
               typeEntries |-> typeEntries,
               entriesForType |-> [t \in DOMAIN typeEntries |->
                                      BuildEntriesForType(typeEntries[t])]]
    /\ UNCHANGED <<cfgVars, Health, cursor, crashed, postVars, pingVars, predVars, rrVars,
                   lookup, probe, debugVars>>

NextParse ==
    \E tasks \in EntriesObjects :
        \E ord \in IterationOrders([present |-> TRUE, json |-> "object", tasks |-> tasks]) :
            ParseRequest(tasks, ord)

SpecParse == Init /\ [][NextParse]_vars

(***************************************************************************)
(* The registry's own operations, which no handler calls: AddBackend and   *)
(* RemoveBackend, beside POST /api/config and SetHealthStatus.             *)
(***************************************************************************)
\* the Config object: the registry and the health map it owns
ConfigState ==
    [defaultBackend |-> DefaultBackend, backends |-> Backends,
     taskRouting |-> TaskRouting, health |-> Health]

\* if a backend has the name its URL is replaced, otherwise one is appended
AddBackend(c, name, url) ==
    LET hits == {i \in 1..Len(c.backends) : c.backends[i].name = name}
    IN  IF hits # {}
        THEN [c EXCEPT !.backends[Min(hits)].url = url]
        ELSE [c EXCEPT !.backends = Append(c.backends, [name |-> name, url |-> url])]

\* RemoveBackend deleting the health record of the backend as well
RemoveBackendPurging(c, name) ==
    LET hits == {i \in 1..Len(c.backends) : c.backends[i].name = name}
    IN  IF hits = {}
        THEN c
        ELSE [c EXCEPT
                 !.backends = [j \in 1..(Len(c.backends) - 1) |->
                                  IF j < Min(hits) THEN c.backends[j]
                                  ELSE c.backends[j + 1]],
                 !.taskRouting = [t \in {task \in DOMAIN c.taskRouting :
                                            c.taskRouting[task] # name} |->
                                     c.taskRouting[t]],
                 !.defaultBackend = IF c.defaultBackend = name THEN ""
                                    ELSE c.defaultBackend,
                 !.health = [n \in DOMAIN c.health \ {name} |-> c.health[n]]]

\* the first backend of the name is cut out of the list, the routing entries
\* naming it are deleted and the default is reset when it was the default
RemoveBackend(c, name) ==
    LET hits == {i \in 1..Len(c.backends) : c.backends[i].name = name}
    IN  IF hits = {}
        THEN c
        ELSE [c EXCEPT
                 !.backends = [j \in 1..(Len(c.backends) - 1) |->
                                  IF j < Min(hits) THEN c.backends[j]
                                  ELSE c.backends[j + 1]],
                 !.taskRouting = [t \in {task \in DOMAIN c.taskRouting :
                                            c.taskRouting[task] # name} |->
                                     c.taskRouting[t]],
                 !.defaultBackend = IF c.defaultBackend = name THEN ""
                                    ELSE c.defaultBackend]

\* the Config object after a call
ConfigBecomes(c) ==
    /\ DefaultBackend' = c.defaultBackend
    /\ Backends' = c.backends
    /\ TaskRouting' = c.taskRouting
    /\ Health' = c.health
    /\ UNCHANGED <<ModelTypeRouting, cursor, crashed, postVars, pingVars, predVars, rrVars,
                   lookupVars, debugVars>>

\* cfg.AddBackend(name, url)
CallAddBackend(name, url) ==
    /\ MayBegin(FALSE)
    /\ ConfigBecomes(AddBackend(ConfigState, name, url))

\* cfg.RemoveBackend(name)
CallRemoveBackend(name) ==
    /\ MayBegin(FALSE)
    /\ ConfigBecomes(RemoveBackend(ConfigState, name))

\* cfg.SetHealthStatus(name, status, error) for a configured backend, as the probes
\* and the forwarding workers call it
CallSetHealthStatus(name, status, error) ==
    /\ MayBegin(FALSE)
    /\ FindByName(Backends, name) # <<>>
    /\ ConfigBecomes([ConfigState EXCEPT
           !.health = SetHealthStatus(Health, name, status, error)])

\* cfg.GetBackendsByType(typeName) and cfg.GetHealthyBackendsByType(typeName)
LookupBackendsByType(typeName) ==
    /\ MayBegin(FALSE)
    /\ lookup' = [NoLookup EXCEPT !.type = typeName,
                                  !.backends = GetBackendsByType(typeName),
                                  !.healthy = GetHealthyBackendsByType(typeName)]
    /\ UNCHANGED <<cfgVars, Health, cursor, crashed, postVars, pingVars, predVars, rrVars,
                   probe, parse, debugVars>>

NextRegistry ==
    \/ ConfigPost(PostedConfigs, FALSE)
    \/ \E typeName \in Types : LookupBackendsByType(typeName)
    \/ \E name \in {"A", "B"} : \E url \in {"uA", "uB"} : CallAddBackend(name, url)
    \/ \E name \in {"A", "B"} : CallRemoveBackend(name)
    \/ \E name \in {"A", "B"} :
          \E status \in {HealthStatusHealthy, HealthStatusUnhealthy} :
              CallSetHealthStatus(name, status, IF status = HealthStatusHealthy THEN ""
                                                ELSE "connection refused")

SpecRegistry == Init /\ [][NextRegistry]_vars

(***************************************************************************)
(* The debug recorder.  package debug exists in two variants: one keeps    *)
(* the records in a slice with an id -> index map beside it, the other in  *)
(* a map id -> record.  The handlers below are run against both.           *)
(***************************************************************************)
\* record ids GenerateID can return
MaxIDs == 3
\* records the recorder is asked to store in one run, and so the ticks of the clock
MaxClock == 4
\* the largest maxRecords a client posts
MaxPosted == 3

RecordIDs == 1..MaxIDs

\* HTTPRecord{ID: id, Timestamp: time.Now(), Type: type}; Seq is not a field of the
\* source: it is the ordinal of the call that added the record
HTTPRecord(id, timestamp, type, seq) ==
    [ID |-> id, Timestamp |-> timestamp, Type |-> type, Seq |-> seq]

\* dm.enabled = enabled
SetEnabled(d, enabled) == [d EXCEPT !.enabled = enabled]

\* a manager that never drops a record
trimRecordsNever(d) == d

\* for len(dm.records) > dm.maxRecords { delete(dm.recordMap, dm.records[0].ID);
\*                                       dm.records = dm.records[1:] }
RECURSIVE trimRecords(_)
trimRecords(d) ==
    IF Len(d.records) > d.maxRecords
    THEN trimRecords([d EXCEPT
             !.recordMap = [id \in DOMAIN d.recordMap \ {d.records[1].ID} |->
                                d.recordMap[id]],
             !.records = Tail(d.records)])
    ELSE d

\* dm.recordMap[record.ID] = len(dm.records); dm.records = append(dm.records, record);
\* dm.trimRecords()
addRecord(d, record) ==
    trimRecords([d EXCEPT
        !.recordMap = [id \in DOMAIN d.recordMap \cup {record.ID} |->
                           IF id = record.ID THEN Len(d.records) ELSE d.recordMap[id]],
        !.records = Append(d.records, record)])

\* dm.maxRecords = max; dm.trimRecords()
SetMaxRecords(d, max) == trimRecords([d EXCEPT !.maxRecords = max])

\* dm.records = make([]HTTPRecord, 0); dm.recordMap = make(map[string]int)
ClearRecords(d) == [d EXCEPT !.records = <<>>, !.recordMap = EmptyMap]

\* if !dm.IsEnabled() { return }; dm.addRecord(record)
RecordRequest(d, record) == IF d.enabled THEN addRecord(d, record) ELSE d

\* The ids the inner loop of trimRecords can end with: it ranges over the map in
\* an unspecified order and keeps the first record met that no record met later is
\* Before, so any record of the earliest timestamp.
OldestIDs(records) ==
    {id \in DOMAIN records :
        \A other \in DOMAIN records : records[id].Timestamp <= records[other].Timestamp}

\* for len(dm.records) > dm.maxRecords { ...; delete(dm.records, oldestID) }: the
\* managers the loop can end with
RECURSIVE trimRecordsMap(_)
trimRecordsMap(d) ==
    IF Cardinality(DOMAIN d.records) > d.maxRecords
    THEN UNION {trimRecordsMap([d EXCEPT
                    !.records = [id \in DOMAIN d.records \ {oldestID} |-> d.records[id]]])
                : oldestID \in OldestIDs(d.records)}
    ELSE {d}

\* dm.records[record.ID] = record; dm.trimRecords()
addRecordMap(d, record) ==
    trimRecordsMap([d EXCEPT
        !.records = [id \in DOMAIN d.records \cup {record.ID} |->
                         IF id = record.ID THEN record ELSE d.records[id]]])

\* dm.maxRecords = max; dm.trimRecords()
SetMaxRecordsMap(d, max) == trimRecordsMap([d EXCEPT !.maxRecords = max])

\* dm.records = make(map[string]HTTPRecord)
ClearRecordsMap(d) == [d EXCEPT !.records = EmptyMap]

\* if !dm.IsEnabled() { return }; dm.addRecord(record)
RecordRequestMap(d, record) == IF d.enabled THEN addRecordMap(d, record) ELSE {d}

\* POST /api/debug/toggle
DebugToggleHandler(enabled) ==
    /\ dm' = SetEnabled(dm, enabled)
    /\ mdm' = SetEnabled(mdm, enabled)
    /\ UNCHANGED <<cfgVars, Health, cursor, crashed, postVars, pingVars, predVars, rrVars,
                   lookupVars, now, added>>

\* POST /api/debug/max-records: 400 unless 1 <= maxRecords <= 10000
DebugMaxRecordsHandler(max) ==
    /\ IF max < 1 \/ max > 10000
       THEN UNCHANGED <<dm, mdm>>
       ELSE /\ dm' = SetMaxRecords(dm, max)
            /\ mdm' \in SetMaxRecordsMap(mdm, max)
    /\ UNCHANGED <<cfgVars, Health, cursor, crashed, postVars, pingVars, predVars, rrVars,
                   lookupVars, now, added>>

\* DELETE /api/debug/records
DebugClearRecordsHandler ==
    /\ dm' = ClearRecords(dm)
    /\ mdm' = ClearRecordsMap(mdm)
    /\ UNCHANGED <<cfgVars, Health, cursor, crashed, postVars, pingVars, predVars, rrVars,
                   lookupVars, now, added>>

\* DebugMiddleware: recordID := debug.GenerateID(); dm.RecordIncomingRequest(recordID, ...)
RecordIncomingRequest(id, tick) ==
    /\ added < MaxClock
    /\ added' = added + 1
    /\ now' = now + tick
    /\ dm' = RecordRequest(dm, HTTPRecord(id, now + tick, "incoming", added + 1))
    /\ mdm' \in RecordRequestMap(mdm, HTTPRecord(id, now + tick, "incoming", added + 1))
    /\ UNCHANGED <<cfgVars, Health, cursor, crashed, postVars, pingVars, predVars, rrVars,
                   lookupVars>>

\* PredictHandler: recordID := debug.GenerateID(); RecordOutgoingRequest(recordID, ...)
RecordOutgoingRequest(id, tick) ==
    /\ added < MaxClock
    /\ added' = added + 1
    /\ now' = now + tick
    /\ dm' = RecordRequest(dm, HTTPRecord(id, now + tick, "outgoing", added + 1))
    /\ mdm' \in RecordRequestMap(mdm, HTTPRecord(id, now + tick, "outgoing", added + 1))
    /\ UNCHANGED <<cfgVars, Health, cursor, crashed, postVars, pingVars, predVars, rrVars,
                   lookupVars>>

NextDebug ==
    \/ \E enabled \in BOOLEAN : DebugToggleHandler(enabled)
    \/ \E max \in 0..MaxPosted : DebugMaxRecordsHandler(max)
    \/ DebugClearRecordsHandler
    \/ \E id \in RecordIDs : \E tick \in {0, 1} : RecordIncomingRequest(id, tick)
    \/ \E id \in RecordIDs : \E tick \in {0, 1} : RecordOutgoingRequest(id, tick)

SpecDebug == Init /\ [][NextDebug]_vars

(***************************************************************************)
(* Properties of POST /predict.                                            *)
(***************************************************************************)
\* C1: all-or-nothing response.  When a request that passed parsing has answered:
\* if a type group failed (no backend, transport failure, non-200, unreadable or
\* non-JSON body) the response is 500 with an errors list and no result data, also
\* when other groups succeeded; the response is 200 only when every group succeeded.
AllOrNothing ==
    (predPc = "done" /\ predResp.status # StatusBadRequest) =>
        IF \E t \in Types : wpc[t] # "none" /\ wresp[t] # "ok"
        THEN /\ predResp.status = StatusInternalServerError
             /\ predResp.result = EmptyMap
             /\ predResp.errors # {}
        ELSE /\ predResp.status = StatusOK
             /\ \A t \in Types : wpc[t] # "none" => t \in DOMAIN typeResults

\* a 500 for a request of two groups, one that succeeded and one that failed
AllOrNothingWitness ==
    /\ predPc = "done"
    /\ predResp.status = StatusInternalServerError
    /\ \E t, u \in Types : wresp[t] = "ok" /\ wresp[u] \in {"status", "transport"}

\* C2: barrier.  A response 200 or 500 exists only when every type group's worker
\* of the request has returned with its outcome; while a group is in flight the
\* request has no response.
Barrier ==
    /\ predResp.status \in {StatusOK, StatusInternalServerError} =>
          \A t \in Types :
              /\ wpc[t] \in {"none", "done"}
              /\ wpc[t] = "done" => t \in DOMAIN typeResults \cup DOMAIN typeErrors
    /\ (\E t \in Types : wpc[t] \in {"start", "select", "forward"}) =>
          predResp = NoResponse

\* a response to a request of two groups
BarrierWitness ==
    /\ predResp.status \in {StatusOK, StatusInternalServerError}
    /\ \A t \in Types : wpc[t] = "done"

\* C3: no sibling cancellation.  While the process runs, a group whose sibling has
\* failed can still take its next step (select, forward, receive any answer), and
\* every group that has returned has an outcome of its own: its backend's answer,
\* or the missing backend of its own type.
NoSiblingCancellation ==
    \A u \in Types :
        /\ (~crashed /\ wpc[u] = "start") => ENABLED WorkerStart(u)
        /\ (~crashed /\ wpc[u] = "select") => ENABLED WorkerSelect(u)
        /\ (~crashed /\ wpc[u] = "forward") =>
              \A answer \in PredictAnswers : ENABLED WorkerForward(u, answer)
        /\ wpc[u] = "done" =>
              IF wresp[u] = "ok"
              THEN u \in DOMAIN typeResults /\ u \notin DOMAIN typeErrors
              ELSE /\ u \in DOMAIN typeErrors /\ u \notin DOMAIN typeResults
                   /\ wresp[u] = "none" =>
                         typeErrors[u] = "no backend available for type: " \o u

\* a group forwarded and answered 200 beside a sibling that failed
NoSiblingCancellationWitness ==
    \E t, u \in Types :
        /\ t \in DOMAIN typeErrors
        /\ wpc[u] = "done" /\ wresp[u] = "ok" /\ u \in DOMAIN typeResults

\* C4: passive health observation.  The step in which a forwarded call returns sets
\* the health record of the selected backend, healthy for HTTP 200 and unhealthy
\* with an error for a non-200 answer or a transport failure, and leaves every other
\* backend's record as it was.
PassiveObservation ==
    [][\A t \in Types :
          (wpc[t] = "forward" /\ wpc'[t] = "done") =>
              LET name == wsel[t][1].name
              IN  /\ DOMAIN Health' = DOMAIN Health \cup {name}
                  /\ Health'[name].status =
                        IF wresp'[t] \in {"transport", "status"}
                        THEN HealthStatusUnhealthy ELSE HealthStatusHealthy
                  /\ Health'[name].error = "" <=> Health'[name].status = HealthStatusHealthy
                  /\ \A other \in DOMAIN Health \ {name} : Health'[other] = Health[other]
      ]_vars

\* a forwarded call answered non-200 and its backend, healthy before, is unhealthy
PassiveObservationWitness ==
    \E t \in Types :
        /\ wpc[t] = "done" /\ wresp[t] = "status"
        /\ Health[wsel[t][1].name].status = HealthStatusUnhealthy
        /\ Health[wsel[t][1].name].error = "status 500: body"

RoundRobin ==
    \A t \in Types :
        LET picks == SelectSeq(rrPicks, LAMBDA pick : pick.type = t)
            n == Len(rrList)
        IN  n > 0 =>
              \A i, j \in 1..Len(picks) :
                  /\ \E k \in 1..n : rrList[k] = picks[i].url
                  /\ (i < j /\ j - i < n) => picks[i].url # picks[j].url

\* four selections for one type from a list of three backends
RoundRobinWitness ==
    /\ Len(rrList) = 3
    /\ \E t \in Types : Len(SelectSeq(rrPicks, LAMBDA pick : pick.type = t)) >= 4

InvalidConfigRejected ==
    postPc # "idle" =>
        LET invalid == \/ Len(postReq.backends) = 0
                       \/ postReq.defaultBackend = ""
                       \/ \A i \in 1..Len(postReq.backends) :
                             postReq.backends[i].name # postReq.defaultBackend
        IN  invalid => /\ postPc = "done"
                       /\ postResp = StatusBadRequest
                       /\ Registry = postOld

\* a default backend missing from the posted list, refused on a configured registry
InvalidConfigRejectedWitness ==
    /\ postResp = StatusBadRequest
    /\ postReq.defaultBackend = "B" /\ postReq.backends = <<BackendA>>
    /\ Len(postOld.backends) = 2 /\ Registry = postOld

\* C10: when saving fails (500) the registry is as it was before the request.
SaveFailureKeepsRegistry ==
    postResp = StatusInternalServerError => Registry = postOld

(***************************************************************************)
(* Properties of the registry under POST /api/config.                      *)
(***************************************************************************)
\* C11: atomic config replace.  Whenever a /predict group worker or a /ping is
\* about to read the registry while a config POST is in flight, the registry is
\* the complete old configuration or the complete posted one, never a mix.
AtomicConfigReplace ==
    (/\ postPc \in {"backends", "taskRouting", "modelTypeRouting", "save"}
     /\ \/ \E t \in Types : wpc[t] \in {"start", "select"}
        \/ pingPc \in {"spawn", "probing", "types"})
        => (Registry = postOld \/ Registry = postReq)

\* C12: after an accepted config POST every value of the routing table is the
\* name of a backend of the Backends list.
RoutingTableNamesBackends ==
    postResp = StatusOK =>
        \A t \in DOMAIN TaskRouting :
            \E i \in 1..Len(Backends) : Backends[i].name = TaskRouting[t]

(***************************************************************************)
(* Properties of the registry's lookups.                                   *)
(***************************************************************************)
\* C13: GetBackendURL(type) returns the URL of the backend the routing table
\* names for the type when there is such a backend (the first of that name);
\* otherwise, with no entry or a dangling one, the URL of the default backend;
\* and "" exactly when there is neither: DefaultBackend unset or not in Backends.
BackendURLResolution ==
    lookup.type # "" =>
        LET t == lookup.type
            firstNamed(name, i) ==
                /\ Backends[i].name = name
                /\ \A j \in 1..(i - 1) : Backends[j].name # name
            listed(name) == \E i \in 1..Len(Backends) : Backends[i].name = name
            routed == t \in DOMAIN TaskRouting /\ listed(TaskRouting[t])
            hasDefault == DefaultBackend # "" /\ listed(DefaultBackend)
        IN  /\ routed =>
                \E i \in 1..Len(Backends) :
                    firstNamed(TaskRouting[t], i) /\ lookup.url = Backends[i].url
            /\ (~routed /\ hasDefault) =>
                \E i \in 1..Len(Backends) :
                    firstNamed(DefaultBackend, i) /\ lookup.url = Backends[i].url
            /\ lookup.url = "" <=> (~routed /\ ~hasDefault)

\* a dangling routing entry resolved to the default backend
BackendURLResolutionWitness ==
    /\ lookup.type \in DOMAIN TaskRouting
    /\ \A i \in 1..Len(Backends) : Backends[i].name # TaskRouting[lookup.type]
    /\ DefaultBackend = "B" /\ lookup.url = "uB"

ItemizedFailures ==
    (predPc = "done" /\ predResp.status = StatusInternalServerError) =>
        LET failed == {t \in Types : wpc[t] # "none" /\ wresp[t] # "ok"}
            message(t) ==
                IF wresp[t] = "none" THEN "type " \o t \o ": no backend available for type: " \o t
                ELSE IF wresp[t] = "status"
                     THEN "type " \o t \o ": backend returned status 500: body"
                ELSE IF wresp[t] = "transport" THEN "type " \o t \o ": dial error"
                ELSE IF wresp[t] = "unreadable" THEN "type " \o t \o ": unexpected EOF"
                ELSE "type " \o t \o ": invalid character"
        IN  /\ predResp.errors = {message(t) : t \in failed}
            /\ Cardinality(predResp.errors) = Cardinality(failed)
            /\ predResp.error = "Failed to process some types"

\* a 500 response itemizing the one group whose backend answered 500, beside a
\* group that succeeded
ItemizedFailuresWitness ==
    /\ predPc = "done"
    /\ wresp["visual"] = "ok" /\ wresp["image"] = "status"
    /\ predResp.errors = {"type image: backend returned status 500: body"}

\* C16: parse-time errors abort the request before any group work.  A step that
\* leaves /predict with a 400 response leaves it finished with no group worker
\* and no backend answer, and the step that answers 400 changes no health record
\* and no round-robin cursor.
ParseErrorsAbort ==
    [][predResp'.status = StatusBadRequest =>
          /\ predPc' = "done"
          /\ wpc' = NoWorkers /\ wresp' = NoAnswers /\ wsel' = NoBackends
          /\ predPc = "idle" => (Health' = Health /\ cursor' = cursor)]_vars

\* a 400 for a task that is not an object, sent beside a well-formed task, with
\* health records and an advanced cursor in place
ParseErrorsAbortWitness ==
    /\ predPc = "done" /\ predResp.status = StatusBadRequest
    /\ predResp.error = "Failed to parse entries: invalid types structure for task"
    /\ DOMAIN predReq.tasks = {"clip", "ocr"}
    /\ Health # EmptyMap /\ \E t \in Types : cursor[t] > 0

\* C17: /predict answers 400, before any fan-out, exactly when the entries field
\* is missing or empty, is not a JSON object, holds a task whose value is not a
\* JSON object, or yields no entry (an empty object, or only tasks with empty
\* objects); every other payload is accepted and fanned out, one group per type.
ParseFailsExactlyWhenMalformed ==
    predPc \in {"running", "done"} =>
        LET typesOf(task) == DOMAIN predReq.tasks[task].types
            malformed ==
                \/ ~predReq.present
                \/ predReq.json # "object"
                \/ \E task \in DOMAIN predReq.tasks : ~predReq.tasks[task].isObject
                \/ \A task \in DOMAIN predReq.tasks : typesOf(task) = {}
        IN  IF malformed
            THEN /\ predPc = "done" /\ predResp.status = StatusBadRequest
                 /\ entries = <<>> /\ wpc = NoWorkers
            ELSE /\ predResp.status # StatusBadRequest
                 /\ \A t \in Types :
                       wpc[t] # "none" <=>
                           \E task \in DOMAIN predReq.tasks : t \in typesOf(task)

\* a payload of one task with an empty object, refused for having no entry
ParseFailsWitness ==
    /\ predReq.present /\ predReq.json = "object"
    /\ DOMAIN predReq.tasks = {"ocr"} /\ predReq.tasks["ocr"].isObject
    /\ predResp.status = StatusBadRequest /\ predResp.error = "No entries specified"

\* C18: one outbound call per type.  A request makes at most one call for each
\* type, whatever the answer, and only for a type of its entries; the call
\* carries the entries of that type of every task that has the type.
OneCallPerType ==
    \A t \in Types :
        /\ Len(wcalls[t]) <= 1
        /\ Len(wcalls[t]) = 1 =>
              LET sent == wcalls[t][1].entries
                  tasksOfType == {task \in DOMAIN predReq.tasks :
                                     t \in DOMAIN predReq.tasks[task].types}
              IN  /\ tasksOfType # {}
                  /\ DOMAIN sent = tasksOfType
                  /\ \A task \in tasksOfType :
                        /\ DOMAIN sent[task] = {t}
                        /\ sent[task][t] = predReq.tasks[task].types[t]

\* two tasks of one type sent in a single call that the backend answered with 500,
\* the request finished
OneCallPerTypeWitness ==
    /\ predPc = "done" /\ wresp["image"] = "status"
    /\ Len(wcalls["image"]) = 1
    /\ DOMAIN wcalls["image"][1].entries = {"clip", "ocr"}

\* C19: attachment pass-through.  Every outbound call carries every field of the
\* original form other than entries: the file parts and the text form values.
AttachmentPassThrough ==
    \A t \in Types : \A i \in 1..Len(wcalls[t]) :
        /\ wcalls[t][i].files = RequestForm.files
        /\ wcalls[t][i].values = RequestForm.values

\* C20: the merged 200 response.  Its keys are the union of the keys of the JSON
\* objects the backends of the type groups returned, each key with a value one of
\* those backends returned for it; with one type group it is that backend's object.
MergedResponseKeys ==
    (predPc = "done" /\ predResp.status = StatusOK) =>
        LET groups == {t \in Types : wpc[t] # "none"}
        IN  /\ groups = DOMAIN typeResults
            /\ DOMAIN predResp.result = UNION {DOMAIN typeResults[t] : t \in groups}
            /\ \A key \in DOMAIN predResp.result :
                  \E t \in groups :
                      /\ key \in DOMAIN typeResults[t]
                      /\ predResp.result[key] = typeResults[t][key]
            /\ \A t \in groups : groups = {t} => predResp.result = typeResults[t]

\* two type groups whose backends returned objects of different keys
MergedResponseKeysWitness ==
    /\ predPc = "done" /\ predResp.status = StatusOK
    /\ DOMAIN typeResults = {"image", "visual"}
    /\ DOMAIN predResp.result = {"clip", "ocr"}

(***************************************************************************)
(* Properties of reassembly, probing and the health tracker.               *)
(***************************************************************************)
\* C21: deterministic reassembly.  The object of a 200 response is the one the
\* same type results give under every order in which the entries of the payload
\* can be enumerated, also when two type results hold the same key.
DeterministicReassembly ==
    (predPc = "done" /\ predResp.status = StatusOK) =>
        \A ord \in IterationOrders(predReq) :
            predResp.result = Assemble(ParseEntries(predReq, ord), typeResults)

\* C22: the active probe.  CheckBackendHealth gives healthy exactly when GET /ping
\* answered 200 with the body pong; a transport error, another status, or a 200
\* with another body gives unhealthy with an error captured.
ActiveProbeResult ==
    probe.result.url # "" =>
        IF ~probe.answer.err /\ probe.answer.code = 200 /\ probe.answer.body = "pong"
        THEN probe.result.status = "healthy" /\ probe.result.error = ""
        ELSE probe.result.status = "unhealthy" /\ probe.result.error # ""

\* a 200 whose body is not pong, found unhealthy
ActiveProbeResultWitness ==
    /\ probe.answer.code = 200 /\ probe.answer.body = "other"
    /\ probe.result.status = "unhealthy"
    /\ probe.result.error = "unexpected response: 200 OK"

BufferBounded ==
    /\ Len(dm.records) <= dm.maxRecords
    /\ Cardinality(DOMAIN mdm.records) <= mdm.maxRecords

\* both buffers full at a posted maxRecords, after more records were added than fit
BufferBoundedWitness ==
    /\ dm.maxRecords \in 1..MaxPosted
    /\ Len(dm.records) = dm.maxRecords
    /\ Cardinality(DOMAIN mdm.records) = mdm.maxRecords
    /\ added > dm.maxRecords
    /\ dm.records[1].Seq > 1

(***************************************************************************)
(* Properties of the registry and the health tracker.                      *)
(***************************************************************************)
\* C25: backend names are unique.  After any sequence of AddBackend,
\* RemoveBackend and accepted config replaces, no two entries of the Backends
\* list have the same name.
UniqueBackendNames ==
    (postPc = "idle" \/ (postPc = "done" /\ postResp = StatusOK)) =>
        \A i, j \in 1..Len(Backends) : Backends[i].name = Backends[j].name => i = j

\* C26: unknown exactly until set.  GetHealthStatus of a name is Unknown with
\* last-check time 0 in the beginning and stays so through every step that is not
\* a SetHealthStatus of that name; a SetHealthStatus of the name makes it the
\* status set, with a last-check time, and from then on no step (another name's
\* SetHealthStatus, a config replace, AddBackend, RemoveBackend) makes it Unknown
\* again.
UnknownUntilSet ==
    /\ \A name \in {"A", "B"} : GetHealthStatus(name) = UnknownHealth
    /\ [][\A name \in {"A", "B"} :
            LET before == GetHealthStatus(name)
                after == GetHealthStatus(name)'
                set == {HealthStatusHealthy, HealthStatusUnhealthy}
            IN  /\ before.status = HealthStatusUnknown <=> before.lastCheck = 0
                /\ before.status # HealthStatusUnknown => after.status \in set
                /\ (before.status = HealthStatusUnknown
                        /\ after.status # HealthStatusUnknown) =>
                       \E status \in set : \E error \in {"", "connection refused"} :
                           CallSetHealthStatus(name, status, error)
                /\ \A status \in set : \A error \in {"", "connection refused"} :
                       CallSetHealthStatus(name, status, error) =>
                           /\ after.status = status
                           /\ after.lastCheck > 0
         ]_vars

\* A was set unhealthy and is no longer configured; B is configured and was never set
UnknownUntilSetWitness ==
    /\ GetHealthStatus("A").status = HealthStatusUnhealthy
    /\ FindByName(Backends, "A") = <<>>
    /\ FindByName(Backends, "B") # <<>>
    /\ GetHealthStatus("B") = UnknownHealth

(***************************************************************************)
(* Properties of parsing, grouping and re-nesting.                         *)
(***************************************************************************)
\* C27 as stated: re-nesting round trip.  BuildEntriesForType of a type group
\* holds exactly that group's (task, type, payload) triples and nothing of another
\* type, and the union over all type groups of these objects equals the original
\* entries object.
ReNestingRoundTrip ==
    parse.parsed =>
        LET built == parse.entriesForType
            original == [task \in DOMAIN parse.input.tasks |->
                            parse.input.tasks[task].types]
            union == [task \in UNION {DOMAIN built[t] : t \in DOMAIN built} |->
                         [typeKey \in UNION {DOMAIN built[t][task] :
                                         t \in {u \in DOMAIN built : task \in DOMAIN built[u]}} |->
                             built[typeKey][task][typeKey]]]
        IN  /\ \A t \in DOMAIN built :
                  \A task \in DOMAIN built[t] :
                      /\ DOMAIN built[t][task] = {t}
                      /\ \E i \in 1..Len(parse.entries) :
                            /\ parse.entries[i].task = task
                            /\ parse.entries[i].type = t
                            /\ parse.entries[i].data = built[t][task][t]
            /\ \A i \in 1..Len(parse.entries) :
                  LET e == parse.entries[i]
                  IN  /\ e.type \in DOMAIN built
                      /\ e.task \in DOMAIN built[e.type]
                      /\ built[e.type][e.task][e.type] = e.data
            /\ union = original

\* C27: re-nesting round trip.  BuildEntriesForType of a type group holds exactly
\* that group's (task, type, payload) triples and nothing of another type, and
\* the union over all type groups of these objects equals the original entries
\* object without its tasks that hold no type: such a task is in no group and
\* in no rebuilt object.
ReNestingRoundTripOfEntries ==
    parse.parsed =>
        LET built == parse.entriesForType
            nonEmpty == {task \in DOMAIN parse.input.tasks :
                            DOMAIN parse.input.tasks[task].types # {}}
            original == [task \in nonEmpty |-> parse.input.tasks[task].types]
            union == [task \in UNION {DOMAIN built[t] : t \in DOMAIN built} |->
                         [typeKey \in UNION {DOMAIN built[t][task] :
                                         t \in {u \in DOMAIN built : task \in DOMAIN built[u]}} |->
                             built[typeKey][task][typeKey]]]
        IN  /\ \A t \in DOMAIN built :
                  \A task \in DOMAIN built[t] :
                      /\ DOMAIN built[t][task] = {t}
                      /\ \E i \in 1..Len(parse.entries) :
                            /\ parse.entries[i].task = task
                            /\ parse.entries[i].type = t
                            /\ parse.entries[i].data = built[t][task][t]
            /\ \A i \in 1..Len(parse.entries) :
                  LET e == parse.entries[i]
                  IN  /\ e.type \in DOMAIN built
                      /\ e.task \in DOMAIN built[e.type]
                      /\ built[e.type][e.task][e.type] = e.data
            /\ union = original

\* two tasks of two types each, with different payloads: two groups of two entries
ReNestingRoundTripWitness ==
    /\ parse.parsed
    /\ DOMAIN parse.entriesForType = {"image", "visual"}
    /\ DOMAIN parse.entriesForType["image"] = {"clip", "ocr"}
    /\ parse.entriesForType["image"]["clip"]["image"] = "p"
    /\ parse.entriesForType["image"]["ocr"]["image"] = "q"
    /\ Len(parse.entries) = 4

\* C28: ParseEntries returns one Entry for each (task, type) pair of the entries
\* object, with its payload, and no other; the Index values are 0..n-1 without gap
\* or repeat and strictly increasing along the list; each type group holds the
\* entries of its type in increasing Index order.
EntriesNumberedInOrder ==
    parse.parsed =>
        LET es == parse.entries
            n == Len(es)
            tasks == parse.input.tasks
        IN  /\ \A task \in DOMAIN tasks : \A typeKey \in DOMAIN tasks[task].types :
                  Cardinality({i \in 1..n : es[i].task = task /\ es[i].type = typeKey}) = 1
            /\ \A i \in 1..n :
                  /\ es[i].task \in DOMAIN tasks
                  /\ es[i].type \in DOMAIN tasks[es[i].task].types
                  /\ es[i].data = tasks[es[i].task].types[es[i].type]
            /\ {es[i].index : i \in 1..n} = 0..(n - 1)
            /\ \A i, j \in 1..n : i < j => es[i].index < es[j].index
            /\ \A t \in DOMAIN parse.typeEntries :
                  LET te == parse.typeEntries[t]
                  IN  /\ \A i, j \in 1..Len(te) : i < j => te[i].index < te[j].index
                      /\ {te[i] : i \in 1..Len(te)} = {es[i] : i \in {j \in 1..n : es[j].type = t}}
                      /\ Len(te) = Cardinality({j \in 1..n : es[j].type = t})

\* four entries, the image group holding those numbered 0 and 3
EntriesNumberedInOrderWitness ==
    /\ parse.parsed
    /\ Len(parse.entries) = 4
    /\ "image" \in DOMAIN parse.typeEntries
    /\ Len(parse.typeEntries["image"]) = 2
    /\ parse.typeEntries["image"][1].index = 0
    /\ parse.typeEntries["image"][2].index = 3

\* C29: the healthy backends of a type.  Whatever the registry and the health
\* records hold, GetHealthyBackendsByType(type) is the list of the members of
\* GetBackendsByType(type) whose health status is healthy: a backend whose status
\* is unknown or unhealthy is not returned, and both lists hold at most one
\* backend.
HealthyBackendsAreHealthyMembers ==
    [][\A typeName \in Types :
          LookupBackendsByType(typeName) =>
              LET all == lookup'.backends
                  healthy == lookup'.healthy
                  isHealthy(b) == /\ b.name \in DOMAIN Health
                                  /\ Health[b.name].status = HealthStatusHealthy
              IN  /\ Len(all) <= 1
                  /\ Len(healthy) <= 1
                  /\ healthy = SelectSeq(all, isHealthy)
                  /\ \A i \in 1..Len(all) :
                        \E j \in 1..Len(Backends) :
                            /\ Backends[j] = all[i]
                            /\ typeName \in DOMAIN TaskRouting
                            /\ TaskRouting[typeName] = all[i].name
                  /\ (typeName \in DOMAIN TaskRouting
                         /\ \E j \in 1..Len(Backends) :
                               Backends[j].name = TaskRouting[typeName]) => Len(all) = 1
      ]_vars

\* a routed backend never probed, and so not among the healthy ones, while the
\* other backend is healthy
HealthyBackendsWitness ==
    /\ lookup.type = "image"
    /\ Len(lookup.backends) = 1
    /\ lookup.healthy = <<>>
    /\ lookup.backends[1].name \notin DOMAIN Health
    /\ \E name \in DOMAIN Health : Health[name].status = HealthStatusHealthy

\* C30: health records live on their own.  A step of a config replace and a
\* RemoveBackend leave every health record as it was, the records of backends
\* that are no longer configured included; the health records change in a
\* SetHealthStatus only.
HealthRecordsKept ==
    [][/\ ConfigPost(PostedConfigs, FALSE) => Health' = Health
       /\ \A name \in {"A", "B"} : CallRemoveBackend(name) => Health' = Health
       /\ Health' # Health =>
              \E name \in {"A", "B"} :
                  \E status \in {HealthStatusHealthy, HealthStatusUnhealthy} :
                      \E error \in {"", "connection refused"} :
                          CallSetHealthStatus(name, status, error)
      ]_vars

\* an accepted config replace left out backend B, whose healthy record is still there
HealthRecordsKeptWitness ==
    /\ postPc = "done" /\ postResp = StatusOK
    /\ FindByName(postOld.backends, "B") # <<>>
    /\ FindByName(Backends, "B") = <<>>
    /\ "B" \in DOMAIN Health
    /\ Health["B"].status = HealthStatusHealthy

LastWriterWins ==
    /\ [](\A name \in DOMAIN Health :
             /\ Health[name].status \in {HealthStatusHealthy, HealthStatusUnhealthy}
             /\ Health[name].status = HealthStatusHealthy <=> Health[name].error = "")
    /\ [][/\ \A t \in Types : \A answer \in PredictAnswers :
                WorkerForward(t, answer) =>
                    LET name == wsel[t][1].name
                    IN  /\ Health'[name].status =
                               IF answer.kind # "transport" /\ answer.code = StatusOK
                               THEN HealthStatusHealthy ELSE HealthStatusUnhealthy
                        /\ Health'[name].error =
                               IF answer.kind = "transport" THEN "dial error"
                               ELSE IF answer.code = StatusOK THEN ""
                               ELSE "status 500: body"
                        /\ \A other \in DOMAIN Health \ {name} :
                               Health'[other] = Health[other]
                        /\ DOMAIN Health' = DOMAIN Health \cup {name}
          /\ \A idx \in 1..Len(pingProbed) : \A answer \in PingAnswers :
                (PingProbe(idx, answer) /\ ~crashed') =>
                    LET name == pingBackends[idx].name
                    IN  /\ Health'[name].status = statuses'[idx].status
                        /\ Health'[name].error = statuses'[idx].error
                        /\ \A other \in DOMAIN Health \ {name} :
                               Health'[other] = Health[other]
                        /\ DOMAIN Health' = DOMAIN Health \cup {name}
          /\ Health' # Health =>
                \/ \E t \in Types : \E answer \in PredictAnswers : WorkerForward(t, answer)
                \/ \E idx \in 1..Len(pingProbed) : \E answer \in PingAnswers :
                      PingProbe(idx, answer)
          /\ \A t \in Types :
                (WorkerStart(t) /\ whealthy'[t] # whealthy[t]) =>
                    \A i \in 1..Len(whealthy'[t]) :
                        /\ whealthy'[t][i].name \in DOMAIN Health
                        /\ Health[whealthy'[t][i].name].status = HealthStatusHealthy
                        /\ Health[whealthy'[t][i].name].error = ""
         ]_vars

\* a backend that this /ping probed healthy and a forwarder then wrote unhealthy,
\* while the probes of the request are still running
LastWriterWinsWitness ==
    /\ pingPc = "probing"
    /\ \E idx \in 1..Len(pingProbed) :
          /\ pingProbed[idx]
          /\ statuses[idx].status = "healthy"
          /\ pingBackends[idx].name \in DOMAIN Health
          /\ Health[pingBackends[idx].name].status = HealthStatusUnhealthy
          /\ Health[pingBackends[idx].name].error = "status 500: body"
    /\ \E idx \in 1..Len(pingProbed) : ~pingProbed[idx]

\* C33: exactly one outcome per type group.  Once every group worker of an
\* accepted /predict request has returned, each type of the request is a key of
\* typeResults or of typeErrors and not of both, and neither map has another key,
\* however the workers and the other handlers interleaved.
OneOutcomePerGroup ==
    (predPc \in {"running", "done"} /\ entries # <<>>
        /\ \A t \in Types : wpc[t] \in {"none", "done"}) =>
        LET types == {pr[2] : pr \in TaskTypePairs(predReq)}
        IN  /\ DOMAIN typeResults \cup DOMAIN typeErrors = types
            /\ DOMAIN typeResults \cap DOMAIN typeErrors = {}

\* the request of two groups answered: one group has a result, the other an error
OneOutcomePerGroupWitness ==
    /\ predPc = "done"
    /\ predResp.status = StatusInternalServerError
    /\ DOMAIN typeResults = {"visual"}
    /\ DOMAIN typeErrors = {"image"}
    /\ pingPc # "idle"

\* C34: index consistency of the slice-based manager.  Every id of recordMap maps
\* to an index inside records, and the record at that index has that id, also
\* after older records were evicted.
RecordMapIndexesRecords ==
    \A id \in DOMAIN dm.recordMap :
        /\ dm.recordMap[id] < Len(dm.records)
        /\ dm.records[dm.recordMap[id] + 1].ID = id

\* C35: eviction is oldest-first.  Whenever a step (a recorded request, a posted
\* maxRecords) leaves more records than maxRecords allows, the records kept are
\* the maxRecords most recently added of those at hand, in the slice-based and in
\* the map-based manager: no record is removed while one added before it is kept.
OldestEvictedFirst ==
    [][LET MostRecent(pool, kept, max) ==
               Cardinality(pool) > max =>
                   /\ kept \subseteq pool
                   /\ Cardinality(kept) = max
                   /\ \A removed \in pool \ kept : \A k \in kept : removed.Seq < k.Seq
           sliceBefore == {dm.records[i] : i \in 1..Len(dm.records)}
           sliceAfter == {dm'.records[i] : i \in 1..Len(dm'.records)}
           mapBefore == {mdm.records[id] : id \in DOMAIN mdm.records}
           mapAfter == {mdm'.records[id] : id \in DOMAIN mdm'.records}
           mapNew == mapAfter \ mapBefore
       IN  ~DebugClearRecordsHandler =>
               /\ MostRecent(sliceBefore \cup sliceAfter, sliceAfter, dm'.maxRecords)
               /\ MostRecent({r \in mapBefore : \A new \in mapNew : r.ID # new.ID}
                                 \cup mapAfter,
                             mapAfter, mdm'.maxRecords)
      ]_vars

\* C36: /ping against a concurrent config replace.  The list of backends /ping
\* probes has the length of the status array it sized from the registry, so every
\* probe worker writes inside the array, also when an accepted POST /api/config
\* changes the number of backends in between.
PingProbesWithinStatuses ==
    pingPc = "probing" =>
        /\ Len(pingBackends) = Len(statuses)
        /\ \A idx \in 1..Len(pingBackends) : ProbeIndexInRange(idx)

\* the request's own probe of the backend called name came back healthy
OwnProbeHealthy(name) ==
    \E idx \in 1..Len(pingBackends) :
        /\ idx <= Len(statuses)
        /\ pingBackends[idx].name = name
        /\ statuses[idx].status = "healthy"

\* C37: a 200 of /ping reflects the request's own probes.  /ping answers 200
\* only if its own probe of the default backend, and of the backend of every
\* routed type, came back healthy, also when /predict forwarders write the same
\* health records between the probes and the evaluation.
PongReflectsOwnProbes ==
    [][(PingCheckTypes /\ pingResp' = StatusOK) =>
          /\ defaultBackend # <<>>
          /\ OwnProbeHealthy(defaultBackend[1].name)
          /\ \A typeName \in GetAllTypes : OwnProbeHealthy(TaskRouting[typeName])]_vars

\* C38: every accepted POST /predict request eventually answers.  Once the
\* request has fanned out, every group worker terminates, the barrier is passed
\* and the response is written, also with /ping, POST /api/config and the other
\* requests running beside it.
PredictEventuallyAnswers == (predPc = "running") ~> (predPc = "done")

====
